---- MODULE Spec2Model ----
(***************************************************************************)
(* Model of AsyncEditorialOrchestrator (src/application/orchestrator.py).  *)
(*                                                                         *)
(* One orchestrator instance, a shared cache backend, and a fixed set of   *)
(* get_editorial coroutines that interleave at their await points.  A      *)
(* coroutine runs synchronously from one await to the next, so every       *)
(* action below is "the pending await of call c completes (or raises) and  *)
(* the coroutine runs on until it suspends in the next await or finishes". *)
(* pc[c] names the await call c is suspended in.                           *)
(***************************************************************************)
EXTENDS Naturals, Sequences, FiniteSets, TLC

\* ------------------------------------------------------------- bounds
\* distinct outputs the AI-backed extractor may produce for a problem
MaxVer == 2
\* number of clear_cache invocations in a behaviour
MaxClears == 1

\* ------------------------------------------------------------- values
\* get_editorial coroutines that may be in flight on the one instance
Calls == {"c1", "c2"}

URLs == {"u1", "u2", "bad"}
ValidURLs == {"u1", "u2"}

\* Optional values: None is the empty tuple, a value v is <<v>>.
None == <<>>
Some(v) == <<v>>
Val(o) == o[1]

\* Python truthiness of an optional object (None is falsy, objects truthy)
Truthy(o) == o # None

ExcTypes == {"CodeforcesEditorialError", "Exception"}
Exc(t, origin) == [type |-> t, origin |-> origin, cause |-> None]

\* URLParser.parse: a valid URL yields the identifier of its coordinates
Identifier(u) == [contest |-> "1234", index |-> IF u = "u1" THEN "A" ELSE "B"]
Identifiers == {Identifier(u) : u \in ValidURLs}

\* ProblemIdentifier.cache_key: a deterministic function of the coordinates
cache_key(id) == <<"editorial", id.contest, id.index>>
CacheKeys == {cache_key(id) : id \in Identifiers}

\* parse_problem_page builds a new ProblemData object on every invocation;
\* `fetch` is the identity of that object (the call that had it built)
ProblemDataOf(id, c) == [problem |-> id, title |-> <<"title", id.index>>, fetch |-> c]

TutorialURL(id) == <<"blog", id.contest>>
TutorialFormats == {"html"}
TutorialData(url, f) == [content |-> url, format |-> f]

\* the extractor's output; version 0 is an editorial of an earlier run
EditorialOf(id, v) == [problem |-> id, version |-> v]

\* CachedEditorial(problem=, editorial=, tutorial_url=, tutorial_format=)
CachedEditorial(id, ed, url, fmt) ==
    [problem |-> id, editorial |-> ed, tutorial_url |-> url, tutorial_format |-> fmt]

\* Raw values of the backend.  kind "absent": no entry (get returns None);
\* "empty": a present but falsy value; "junk": a truthy value that is no
\* serialized envelope; "dict": the serialization of an envelope.
Absent == [kind |-> "absent", items |-> None]
EmptyRaw == [kind |-> "empty", items |-> None]
JunkRaw == [kind |-> "junk", items |-> None]

\* CachedEditorial.to_dict
to_dict(env) ==
    [kind |-> "dict",
     items |-> Some(<<env.problem, env.editorial, env.tutorial_url, env.tutorial_format>>)]

\* CachedEditorial.from_dict: None stands for "raises"
from_dict(raw) ==
    IF raw.kind = "dict"
    THEN LET f == Val(raw.items)
         IN Some(CachedEditorial(f[1], f[2], f[3], f[4]))
    ELSE None

RawTruthy(raw) == raw.kind \in {"junk", "dict"}

\* an entry left by an earlier run, and one whose editorial field is null
OldEntry(id) ==
    to_dict(CachedEditorial(id, Some(EditorialOf(id, 0)), TutorialURL(id), "html"))
NullEntry(id) == to_dict(CachedEditorial(id, None, TutorialURL(id), "html"))

\* The damaged values (empty, junk, null editorial) are explored at the key
\* of problem A; the key of problem B starts absent or with an earlier entry.
InitialRaw(id) ==
    IF id.index = "A"
    THEN {Absent, EmptyRaw, JunkRaw, OldEntry(id), NullEntry(id)}
    ELSE {Absent, OldEntry(id)}

\* what the backend may hold when the orchestrator is constructed
InitialStores ==
    {s \in [CacheKeys -> UNION {InitialRaw(id) : id \in Identifiers}] :
        \A id \in Identifiers : s[cache_key(id)] \in InitialRaw(id)}

VARIABLES
    self,            \* the orchestrator: [cache_client, use_cache]
    ctor_use_cache,  \* the use_cache argument given to __init__
    store,           \* the cache backend: key -> raw value
    pc,              \* per call: the await it is suspended in
    loc,             \* per call: the coroutine's local variables
    outcome,         \* per call: what the caller observes
    trace,           \* per call: the operations invoked, in order
    obs,             \* per call: values exchanged with collaborators
    clear_log,       \* outcomes of the clear_cache invocations
    writer           \* per key: who wrote the entry it holds ("init": present
                     \* at construction, "flush": emptied by flushdb, or a call)

vars == <<self, ctor_use_cache, store, pc, loc, outcome, trace, obs, clear_log, writer>>

\* ------------------------------------------------------------- __init__
\* cache_client is "redis" or "None"
init_orchestrator(cache_client, use_cache) ==
    [cache_client |-> cache_client,
     use_cache |-> use_cache /\ cache_client # "None"]

NoLocals ==
    [url |-> None, identifier |-> None, cached_result |-> None,
     problem_data |-> None, tutorial_url |-> None, tutorial_data |-> None,
     editorial |-> None]

Pending == [kind |-> "pending", editorial |-> None, problem_data |-> None, error |-> None]

\* What a test harness records of one call.
\*   url: the argument;
\*   get_key: the argument of the backend's get;
\*   got: the kind of raw value the backend's get answered ("none": no answer);
\*   lookup: "none" (no lookup made), "absent" or "value" (what
\*   _get_from_cache returned); cached: the editorial it returned;
\*   fetched, extracted: what parse_problem_page and extract returned;
\*   set_key, set_raw: the arguments of the backend's set;
\*   src: who had written the entry the backend's get answered with;
\*   raised: the exception a step raised into get_editorial;
\*   faults: the cache-layer exceptions swallowed during the call;
\*   cancel: the await a cancellation was delivered in ("none": none was).
NoObs ==
    [url |-> None, get_key |-> None, got |-> "none", lookup |-> "none",
     cached |-> None, fetched |-> None, extracted |-> None, set_key |-> None,
     set_raw |-> None, src |-> "none", raised |-> None, faults |-> {},
     cancel |-> "none"]

Init ==
    /\ \E client \in {"redis", "None"}, flag \in BOOLEAN :
          /\ self = init_orchestrator(client, flag)
          /\ ctor_use_cache = flag
    /\ store \in InitialStores
    /\ pc = [c \in Calls |-> "idle"]
    /\ loc = [c \in Calls |-> NoLocals]
    /\ outcome = [c \in Calls |-> Pending]
    /\ trace = [c \in Calls |-> <<>>]
    /\ obs = [c \in Calls |-> NoObs]
    /\ clear_log = <<>>
    /\ writer = [k \in CacheKeys |-> "init"]

\* ------------------------------------------------------------- helpers
\* (variant: the flag of __init__ is forgotten, the client alone decides)
cache_enabled_by_client == self.cache_client # "None"

\* lines 54 and 77: `if self.use_cache and self.cache_client`
cache_enabled == self.use_cache /\ self.cache_client # "None"

\* (variant: no `except Exception` clause, every error leaves as it is)
never_wrap(e) == e

\* (variant: no `except CodeforcesEditorialError: raise`, every error is wrapped)
wrap_always(e) ==
    [type |-> "CodeforcesEditorialError", origin |-> "get_editorial", cause |-> Some(e)]

\* lines 88-92: a domain error is re-raised, anything else is wrapped
normalize(e) ==
    IF e.type = "CodeforcesEditorialError"
    THEN e
    ELSE [type |-> "CodeforcesEditorialError", origin |-> "get_editorial",
          cause |-> Some(e)]

Returned(ed, pd) ==
    [kind |-> "return", editorial |-> ed, problem_data |-> pd, error |-> None]
Raised(e) ==
    [kind |-> "raise", editorial |-> None, problem_data |-> None, error |-> Some(e)]
Cancelled ==
    [kind |-> "cancelled", editorial |-> None, problem_data |-> None, error |-> None]

\* the coroutine of call c suspends in await p
Goto(c, p, l, ops, o) ==
    /\ pc' = [pc EXCEPT ![c] = p]
    /\ loc' = [loc EXCEPT ![c] = l]
    /\ trace' = [trace EXCEPT ![c] = trace[c] \o ops]
    /\ obs' = [obs EXCEPT ![c] = o]
    /\ UNCHANGED <<outcome, self, ctor_use_cache, clear_log>>

\* the coroutine of call c ends; its frame is dropped
Finish(c, out, ops, o) ==
    /\ pc' = [pc EXCEPT ![c] = "done"]
    /\ loc' = [loc EXCEPT ![c] = NoLocals]
    /\ outcome' = [outcome EXCEPT ![c] = out]
    /\ trace' = [trace EXCEPT ![c] = trace[c] \o ops]
    /\ obs' = [obs EXCEPT ![c] = o]
    /\ UNCHANGED <<self, ctor_use_cache, clear_log>>

\* (variant: a step that raised is attempted a second time)
FailAfterRetry(c, e) ==
    IF Cardinality({i \in DOMAIN trace[c] : trace[c][i] = e.origin}) < 2
    THEN Goto(c, pc[c], loc[c], <<e.origin>>, obs[c])
    ELSE Finish(c, Raised(normalize(e)), <<>>, [obs[c] EXCEPT !.raised = Some(e)])

\* lines 88-92 for an exception e raised by a step of call c
Fail(c, e) ==
    Finish(c, Raised(normalize(e)), <<>>, [obs[c] EXCEPT !.raised = Some(e)])

\* lines 60-61: the miss path starts with the problem page
EnterMiss(c, l, ops, o) ==
    Goto(c, "parse_problem_page", l, ops \o <<"parse_problem_page">>, o)

\* ------------------------------------------------------------- _get_from_cache
\* (variant: the lookup is keyed without the problem index)
get_key_without_index(identifier) == cache_key([identifier EXCEPT !.index = "A"])

\* line 101: the key handed to the backend's get
get_key(identifier) == cache_key(identifier)

\* (variant: `if cached_data is not None`)
raw_not_none(raw) == raw.kind # "absent"

\* line 103: `if cached_data`
cached_data_truthy(raw) == RawTruthy(raw)

\* lines 100-113 once the backend's get has answered: r is "ok" or
\* "raise", raw the stored value.  Never raises: every failure is None.
get_from_cache(r, raw) ==
    IF r = "raise"
    THEN None
    ELSE IF cached_data_truthy(raw)
         THEN IF from_dict(raw) = None
              THEN None
              ELSE Val(from_dict(raw)).editorial
         ELSE None

\* the cache-layer exception swallowed by lines 111-113, if any
get_fault(r, raw) ==
    IF r = "raise" THEN {"get"}
    ELSE IF cached_data_truthy(raw) /\ from_dict(raw) = None THEN {"from_dict"} ELSE {}

\* (variant: the lookup's result is ignored)
never_hit(cached_result) == FALSE

\* line 56: `if cached_result`
is_hit(cached_result) == Truthy(cached_result)

\* ------------------------------------------------------------- get_editorial
\* lines 44-61: URLParser.parse, then the first await
Start(c, u) ==
    /\ pc[c] = "idle"
    /\ UNCHANGED <<store, writer>>
    /\ LET o == [obs[c] EXCEPT !.url = Some(u)]
       IN IF u \notin ValidURLs
          THEN \E t \in ExcTypes :
                 Finish(c, Raised(normalize(Exc(t, "URLParser.parse"))), <<>>,
                        [o EXCEPT !.raised = Some(Exc(t, "URLParser.parse"))])
          ELSE LET l == [loc[c] EXCEPT !.url = Some(u),
                                       !.identifier = Some(Identifier(u))]
               IN IF cache_enabled
                  THEN \* line 55, and line 97 inside _get_from_cache
                       IF self.cache_client = "None"
                       THEN EnterMiss(c, l, <<>>, [o EXCEPT !.lookup = "absent"])
                       ELSE Goto(c, "cache.get", l, <<"cache.get">>,
                                 [o EXCEPT !.get_key = Some(get_key(Identifier(u)))])
                  ELSE EnterMiss(c, l, <<>>, o)

\* (variant: no try block around the lookup, its exception reaches line 90)
LookupRaises(c, l, o) ==
    Finish(c, Raised(normalize(Exc("Exception", "cache.get"))), <<>>,
           [o EXCEPT !.raised = Some(Exc("Exception", "cache.get"))])

\* lines 111-113, then 56 and 60-61: a failed lookup is logged, yields None,
\* and get_editorial goes on as on a miss
LookupFailed(c, l, o) == EnterMiss(c, l, <<>>, o)

\* lines 101-113 and 56-61: the backend's get answers
CacheGetDone(c) ==
    /\ pc[c] = "cache.get"
    /\ UNCHANGED <<store, writer>>
    /\ \E r \in {"ok", "raise"} :
         LET raw == store[Val(obs[c].get_key)]
             cached_result == get_from_cache(r, raw)
             l == [loc[c] EXCEPT !.cached_result = cached_result]
             o == [obs[c] EXCEPT !.got = IF r = "raise" THEN "none" ELSE raw.kind,
                                 !.lookup = IF cached_result = None THEN "absent" ELSE "value",
                                 !.cached = cached_result,
                                 !.src = IF r = "raise" THEN "none"
                                         ELSE writer[Val(obs[c].get_key)],
                                 !.faults = @ \cup get_fault(r, raw)]
         IN IF get_fault(r, raw) # {}
            THEN LookupFailed(c, l, o)
            ELSE IF is_hit(cached_result)
                 THEN Goto(c, "hit.parse_problem_page", l, <<"parse_problem_page">>, o)
                 ELSE EnterMiss(c, l, <<>>, o)

\* (variant: the hit path returns the editorial without the problem data)
hit_return_partial(cached_result, pd) == Returned(cached_result, None)

\* line 58: `return cached_result, problem_data`
hit_return(cached_result, pd) == Returned(cached_result, Some(pd))

\* (variant: a failed fetch on the hit path falls back to the miss path)
HitFetchFallsThrough(c, e) ==
    EnterMiss(c, loc[c], <<>>, [obs[c] EXCEPT !.raised = Some(e)])

\* line 57 raising: nothing on the hit path catches it before lines 88-92
HitFetchFailed(c, e) == Fail(c, e)

\* lines 57-58: the problem page on the hit path
HitFetchDone(c) ==
    /\ pc[c] = "hit.parse_problem_page"
    /\ UNCHANGED <<store, writer>>
    /\ \/ LET pd == ProblemDataOf(Val(loc[c].identifier), c)
          IN Finish(c, hit_return(loc[c].cached_result, pd), <<>>,
                      [obs[c] EXCEPT !.fetched = Some(pd)])
       \/ \E t \in ExcTypes : HitFetchFailed(c, Exc(t, "parse_problem_page"))

\* lines 61-64
FetchDone(c) ==
    /\ pc[c] = "parse_problem_page"
    /\ UNCHANGED <<store, writer>>
    /\ \/ LET pd == ProblemDataOf(Val(loc[c].identifier), c)
          IN Goto(c, "find_tutorial", [loc[c] EXCEPT !.problem_data = Some(pd)],
                    <<"find_tutorial">>, [obs[c] EXCEPT !.fetched = Some(pd)])
       \/ \E t \in ExcTypes : Fail(c, Exc(t, "parse_problem_page"))

\* lines 64-67
LocateDone(c) ==
    /\ pc[c] = "find_tutorial"
    /\ UNCHANGED <<store, writer>>
    /\ \/ Goto(c, "tutorial_parser.parse",
               [loc[c] EXCEPT !.tutorial_url = Some(TutorialURL(Val(loc[c].identifier)))],
               <<"tutorial_parser.parse">>, obs[c])
       \/ \E t \in ExcTypes : Fail(c, Exc(t, "find_tutorial"))

\* lines 67-74
TutorialDone(c) ==
    /\ pc[c] = "tutorial_parser.parse"
    /\ UNCHANGED <<store, writer>>
    /\ \/ \E f \in TutorialFormats :
            Goto(c, "extract",
                 [loc[c] EXCEPT !.tutorial_data =
                      Some(TutorialData(Val(loc[c].tutorial_url), f))],
                 <<"extract">>, obs[c])
       \/ \E t \in ExcTypes : Fail(c, Exc(t, "tutorial_parser.parse"))

\* ------------------------------------------------------------- _save_to_cache
\* (variant: the envelope is built without the editorial)
cache_entry_without_editorial(identifier, editorial, url, fmt) ==
    <<cache_key(identifier), to_dict(CachedEditorial(identifier, None, url, fmt))>>

\* (variant: the envelope is built without the tutorial url)
cache_entry_without_url(identifier, editorial, url, fmt) ==
    <<cache_key(identifier),
      to_dict(CachedEditorial(identifier, editorial, <<"blog", "">>, fmt))>>

\* (variant: the entry is keyed by the contest alone)
cache_entry_by_contest(identifier, editorial, url, fmt) ==
    <<<<"editorial", identifier.contest, "">>,
      to_dict(CachedEditorial(identifier, editorial, url, fmt))>>

\* lines 129-136: the key and the raw value handed to the backend's set
cache_entry(identifier, editorial, url, fmt) ==
    <<cache_key(identifier), to_dict(CachedEditorial(identifier, editorial, url, fmt))>>

\* (variant: no try block around the write-through, its exception reaches line 90)
SavePropagates(c, fault, l, o) ==
    Finish(c, Raised(normalize(Exc("Exception", fault))), <<>>,
           [o EXCEPT !.faults = @ \cup {fault}, !.raised = Some(Exc("Exception", fault))])

\* lines 137-138, then 85-86: a failed write-through is logged and
\* get_editorial returns the pair it produced
SaveFailed(c, fault, l, o) ==
    Finish(c, Returned(l.editorial, l.problem_data), <<>>,
           [o EXCEPT !.faults = @ \cup {fault}])

\* lines 70-86: extract answers; the write-through starts
ExtractDone(c) ==
    /\ pc[c] = "extract"
    /\ UNCHANGED <<store, writer>>
    /\ \/ \E v \in 1..MaxVer :
            LET id == Val(loc[c].identifier)
                ed == EditorialOf(id, v)
                l == [loc[c] EXCEPT !.editorial = Some(ed)]
                o == [obs[c] EXCEPT !.extracted = Some(ed)]
                kv == cache_entry(id, Some(ed), Val(l.tutorial_url),
                                  Val(l.tutorial_data).format)
            IN IF cache_enabled /\ self.cache_client # "None"
               THEN \E b \in {"ok", "CachedEditorial", "to_dict"} :
                       IF b = "ok"
                       THEN Goto(c, "cache.set", l, <<"cache.set">>,
                                 [o EXCEPT !.set_key = Some(kv[1]), !.set_raw = Some(kv[2])])
                       ELSE SaveFailed(c, b, l, o)
               ELSE Finish(c, Returned(l.editorial, l.problem_data), <<>>, o)
       \/ \E t \in ExcTypes : Fail(c, Exc(t, "extract"))

\* lines 136-138, then 85-86: the backend's set answers.  A set that raises
\* may or may not have been applied by the backend.
CacheSetDone(c) ==
    /\ pc[c] = "cache.set"
    /\ \E r \in {"ok", "raise", "raise_applied"} :
         /\ store' = IF r = "raise"
                     THEN store
                     ELSE [store EXCEPT ![Val(obs[c].set_key)] = Val(obs[c].set_raw)]
         /\ writer' = IF r = "raise"
                      THEN writer
                      ELSE [writer EXCEPT ![Val(obs[c].set_key)] = c]
         /\ IF r = "ok"
            THEN Finish(c, Returned(loc[c].editorial, loc[c].problem_data), <<>>, obs[c])
            ELSE SaveFailed(c, "set", loc[c], obs[c])

\* ------------------------------------------------------------- cancellation
Awaits ==
    {"cache.get", "hit.parse_problem_page", "parse_problem_page", "find_tutorial",
     "tutorial_parser.parse", "extract", "cache.set"}

\* (variant: the lookup's except clause catches the cancellation as well)
on_cancel_swallowed_by_lookup(c) ==
    IF pc[c] = "cache.get"
    THEN EnterMiss(c, loc[c], <<>>,
                   [obs[c] EXCEPT !.cancel = pc[c], !.lookup = "absent",
                                  !.faults = @ \cup {"get"}])
    ELSE Finish(c, Cancelled, <<>>, [obs[c] EXCEPT !.cancel = pc[c]])

\* lines 90, 111, 137: `except Exception` does not catch CancelledError (a
\* BaseException), so it leaves get_editorial from whatever await it is in
on_cancel(c) == Finish(c, Cancelled, <<>>, [obs[c] EXCEPT !.cancel = pc[c]])

\* CancelledError is thrown into the pending await.  A set in flight may or
\* may not have been applied.
Cancel(c) ==
    /\ pc[c] \in Awaits
    /\ IF pc[c] = "cache.set"
       THEN \E applied \in BOOLEAN :
              /\ store' = IF applied
                          THEN [store EXCEPT ![Val(obs[c].set_key)] = Val(obs[c].set_raw)]
                          ELSE store
              /\ writer' = IF applied
                           THEN [writer EXCEPT ![Val(obs[c].set_key)] = c]
                           ELSE writer
       ELSE UNCHANGED <<store, writer>>
    /\ on_cancel(c)

\* ------------------------------------------------------------- clear_cache
\* line 142: `if self.cache_client`
clear_flushes == self.cache_client # "None"

\* (variant: the flush is wrapped in a try block that logs and returns)
clear_outcome_swallowed(r) == [result |-> "return", error |-> None]

\* line 144 stands in no try block: what flushdb raises reaches the caller
clear_outcome(r) ==
    IF r = "ok"
    THEN [result |-> "return", error |-> None]
    ELSE [result |-> "raise", error |-> Some(Exc("Exception", "flushdb"))]

AllAbsent == [k \in CacheKeys |-> Absent]

\* lines 140-146.  A flushdb that raises may or may not have been applied.
ClearCache ==
    /\ Len(clear_log) < MaxClears
    /\ UNCHANGED <<self, ctor_use_cache, pc, loc, outcome, trace, obs>>
    /\ IF clear_flushes
       THEN \E r \in {"ok", "raise", "raise_applied"} :
              /\ store' = IF r = "raise" THEN store ELSE AllAbsent
              /\ writer' = IF r = "raise" THEN writer ELSE [k \in CacheKeys |-> "flush"]
              /\ clear_log' = Append(clear_log,
                     [flushdb |-> 1, backend |-> IF r = "ok" THEN "ok" ELSE "error",
                      result |-> clear_outcome(r).result, error |-> clear_outcome(r).error])
       ELSE /\ UNCHANGED <<store, writer>>
            /\ clear_log' = Append(clear_log,
                     [flushdb |-> 0, backend |-> "none",
                      result |-> "return", error |-> None])

\* ------------------------------------------------------------- specification
Next ==
    \/ \E c \in Calls, u \in URLs : Start(c, u)
    \/ \E c \in Calls : CacheGetDone(c)
    \/ \E c \in Calls : HitFetchDone(c)
    \/ \E c \in Calls : FetchDone(c)
    \/ \E c \in Calls : LocateDone(c)
    \/ \E c \in Calls : TutorialDone(c)
    \/ \E c \in Calls : ExtractDone(c)
    \/ \E c \in Calls : CacheSetDone(c)
    \/ \E c \in Calls : Cancel(c)
    \/ ClearCache

Spec == Init /\ [][Next]_vars

\* ------------------------------------------------------------- properties
Done(c) == pc[c] = "done"
Invoked(c, op) == \E i \in DOMAIN trace[c] : trace[c][i] = op
Count(c, op) == Cardinality({i \in DOMAIN trace[c] : trace[c][i] = op})
IsPrefix(s, t) == Len(s) <= Len(t) /\ SubSeq(t, 1, Len(s)) = s
HasValidURL(c) == obs[c].url # None /\ Val(obs[c].url) \in ValidURLs
IdOf(c) == Identifier(Val(obs[c].url))

Pipeline == <<"parse_problem_page", "find_tutorial", "tutorial_parser.parse", "extract">>
PipelineOps == {Pipeline[i] : i \in DOMAIN Pipeline}
\* the call ran to its end: no step raised into it and it was not cancelled
Unfailed(c) == Done(c) /\ obs[c].raised = None /\ outcome[c].kind # "cancelled"
Disabled == ~ctor_use_cache \/ self.cache_client = "None"

\* C1: a call whose cache lookup returned a value invokes the cache get and
\* the problem page fetcher and nothing else (no locator, no tutorial
\* fetcher, no extractor), and when the fetch succeeds it returns the cached
\* editorial with the problem data fetched in this call.
C1_CacheHitShortCircuit ==
    \A c \in Calls :
        obs[c].lookup = "value" =>
            /\ trace[c] = <<"cache.get", "parse_problem_page">>
            /\ Unfailed(c) =>
                 /\ outcome[c].kind = "return"
                 /\ outcome[c].editorial = obs[c].cached
                 /\ outcome[c].problem_data = obs[c].fetched
                 /\ obs[c].fetched # None
                 /\ Val(obs[c].fetched).fetch = c

C1_Witness ==
    \E c \in Calls :
        Done(c) /\ obs[c].lookup = "value" /\ outcome[c].kind = "return"

\* C2: a call whose lookup returned no value and in which no step failed
\* invokes problem fetch, locate, tutorial fetch and extract exactly once
\* each in that order; with caching enabled one cache set follows, at the
\* identifier's key and carrying the extracted editorial (unless building or
\* serializing the envelope failed); the call returns the extracted editorial.
C2_CacheMissFullPipeline ==
    \A c \in Calls :
        (Unfailed(c) /\ HasValidURL(c) /\ obs[c].lookup # "value") =>
            /\ outcome[c].kind = "return"
            /\ obs[c].extracted # None
            /\ outcome[c].editorial = obs[c].extracted
            /\ \A op \in PipelineOps : Count(c, op) = 1
            /\ IF ~cache_enabled
               THEN trace[c] = Pipeline
               ELSE IF obs[c].faults \cap {"CachedEditorial", "to_dict"} # {}
                    THEN trace[c] = <<"cache.get">> \o Pipeline
                    ELSE /\ trace[c] = <<"cache.get">> \o Pipeline \o <<"cache.set">>
                         /\ obs[c].set_key = Some(cache_key(IdOf(c)))
                         /\ from_dict(Val(obs[c].set_raw)) # None
                         /\ Val(from_dict(Val(obs[c].set_raw))).editorial = obs[c].extracted
                         /\ Val(from_dict(Val(obs[c].set_raw))).problem = IdOf(c)

C2_Witness ==
    \E c \in Calls :
        /\ Done(c) /\ outcome[c].kind = "return" /\ obs[c].got = "absent"
        /\ obs[c].faults = {}
        /\ Invoked(c, "cache.set")

\* C3: an exception a step raises into get_editorial reaches the caller as a
\* CodeforcesEditorialError: the very same error when it is one already,
\* otherwise one whose cause is the original; a call that raises raises
\* nothing else.
C3_ErrorNormalization ==
    \A c \in Calls :
        Done(c) =>
            /\ obs[c].raised # None =>
                 /\ outcome[c].kind = "raise"
                 /\ IF Val(obs[c].raised).type = "CodeforcesEditorialError"
                    THEN outcome[c].error = obs[c].raised
                    ELSE /\ Val(outcome[c].error).type = "CodeforcesEditorialError"
                         /\ Val(outcome[c].error).cause = obs[c].raised
            /\ outcome[c].kind = "raise" =>
                 /\ obs[c].raised # None
                 /\ Val(outcome[c].error).type = "CodeforcesEditorialError"

C3_Witness ==
    \E c, d \in Calls :
        /\ Done(c) /\ obs[c].raised # None /\ Val(obs[c].raised).type = "Exception"
        /\ Val(obs[c].raised).origin = "extract"
        /\ Done(d) /\ obs[d].raised # None
        /\ Val(obs[d].raised).type = "CodeforcesEditorialError"

\* C4: when the key is missing, the backend get raises, or the stored value
\* does not deserialize, the lookup yields nothing and raises nothing: the
\* call goes on with the full pipeline as on a miss, returns the extracted
\* editorial when the pipeline steps succeed, and raises only what a
\* pipeline step raised.
C4_CacheReadFaultTolerance ==
    \A c \in Calls :
        (obs[c].got \in {"absent", "junk"} \/ "get" \in obs[c].faults) =>
            /\ obs[c].lookup = "absent"
            /\ obs[c].got = "junk" => "from_dict" \in obs[c].faults
            /\ IsPrefix(<<"cache.get", "parse_problem_page">>, trace[c])
            /\ IsPrefix(trace[c], <<"cache.get">> \o Pipeline \o <<"cache.set">>)
            /\ Unfailed(c) =>
                 /\ outcome[c].kind = "return"
                 /\ obs[c].extracted # None
                 /\ outcome[c].editorial = obs[c].extracted
                 /\ outcome[c].problem_data = obs[c].fetched
                 /\ Invoked(c, "extract")
            /\ obs[c].raised # None => Val(obs[c].raised).origin \in PipelineOps

C4_Witness ==
    \E c, d \in Calls :
        /\ Done(c) /\ outcome[c].kind = "return" /\ "get" \in obs[c].faults
        /\ Done(d) /\ outcome[d].kind = "return" /\ "from_dict" \in obs[d].faults

\* C5: when building the envelope, serializing it or the backend set raises
\* after extract succeeded, the call returns the extracted editorial and the
\* fetched problem data; the failure does not reach the caller.
C5_CacheWriteFaultTolerance ==
    \A c \in Calls :
        obs[c].faults \cap {"CachedEditorial", "to_dict", "set"} # {} =>
            /\ Done(c)
            /\ outcome[c].kind = "return"
            /\ obs[c].extracted # None
            /\ outcome[c].editorial = obs[c].extracted
            /\ obs[c].fetched # None
            /\ outcome[c].problem_data = obs[c].fetched
            /\ obs[c].raised = None

C5_Witness ==
    \E c, d \in Calls :
        /\ "set" \in obs[c].faults /\ outcome[c].kind = "return"
        /\ "to_dict" \in obs[d].faults /\ outcome[d].kind = "return"

\* C6: an orchestrator built with use_cache false or without a backend never
\* invokes the backend's get or set in any call, whatever the call's
\* outcome; every call runs the pipeline from the problem fetch on.
C6_DisabledCacheNoBackendCalls ==
    Disabled =>
        \A c \in Calls :
            /\ ~Invoked(c, "cache.get")
            /\ ~Invoked(c, "cache.set")
            /\ obs[c].lookup = "none"
            /\ HasValidURL(c) => /\ Len(trace[c]) >= 1
                                 /\ IsPrefix(trace[c], Pipeline)
            /\ (Done(c) /\ outcome[c].kind = "return") => trace[c] = Pipeline

C6_Witness ==
    /\ ~ctor_use_cache
    /\ self.cache_client = "redis"
    /\ \E c \in Calls :
          /\ Done(c) /\ outcome[c].kind = "return"
          /\ store[cache_key(IdOf(c))] = OldEntry(IdOf(c))

\* C7: with use_cache false (a backend supplied or not) or without a backend,
\* clear_cache is a no-op: no backend operation, every entry unchanged, no
\* exception.
C7_ClearCacheNoopWhenDisabled ==
    [][(Disabled /\ clear_log' # clear_log) =>
          /\ store' = store
          /\ clear_log'[Len(clear_log')].flushdb = 0
          /\ clear_log'[Len(clear_log')].result = "return"]_vars

\* C8: with a backend configured, clear_cache invokes flushdb exactly once;
\* when flushdb succeeds every key is absent afterwards and clear_cache
\* returns; when flushdb raises, clear_cache raises that very exception.
C8_ClearCacheFlushesAndPropagates ==
    [][(self.cache_client # "None" /\ clear_log' # clear_log) =>
          LET e == clear_log'[Len(clear_log')]
          IN /\ Len(clear_log') = Len(clear_log) + 1
             /\ e.flushdb = 1
             /\ e.backend \in {"ok", "error"}
             /\ e.backend = "ok" =>
                  /\ e.result = "return"
                  /\ \A k \in CacheKeys : store'[k] = Absent
             /\ e.backend = "error" =>
                  /\ e.result = "raise"
                  /\ e.error = Some(Exc("Exception", "flushdb"))]_vars

C8_Witness ==
    \E i \in DOMAIN clear_log :
        /\ clear_log[i].flushdb = 1
        /\ clear_log[i].backend = "error"
        /\ clear_log[i].result = "raise"

\* a call that missed the cache, wrote its editorial through and returned
MissStored(a) ==
    /\ Done(a)
    /\ outcome[a].kind = "return"
    /\ obs[a].lookup = "absent"
    /\ Invoked(a, "cache.set")
    /\ "set" \notin obs[a].faults

\* C9: after a call that missed the cache, wrote through and returned, the
\* key of its identifier holds an entry with its editorial for as long as
\* nothing flushes or overwrites it; a later call with the same url whose
\* get is answered with that entry hits, is handed the same editorial,
\* returns it, and invokes neither the locator nor the extractor.
C9_MissThenHit ==
    \A a \in Calls :
        MissStored(a) =>
            /\ writer[cache_key(IdOf(a))] = a =>
                 /\ store[cache_key(IdOf(a))].kind = "dict"
                 /\ Val(from_dict(store[cache_key(IdOf(a))])).editorial = outcome[a].editorial
            /\ \A b \in Calls \ {a} :
                 (obs[b].url = obs[a].url /\ obs[b].src = a) =>
                     /\ obs[b].lookup = "value"
                     /\ obs[b].cached = outcome[a].editorial
                     /\ ~Invoked(b, "find_tutorial")
                     /\ ~Invoked(b, "tutorial_parser.parse")
                     /\ ~Invoked(b, "extract")
                     /\ ~Invoked(b, "cache.set")
                     /\ Unfailed(b) =>
                          /\ outcome[b].kind = "return"
                          /\ outcome[b].editorial = outcome[a].editorial

C9_Witness ==
    \E a, b \in Calls :
        /\ a # b
        /\ MissStored(a)
        /\ obs[b].url = obs[a].url
        /\ obs[b].src = a
        /\ Done(b)
        /\ outcome[b].kind = "return"
        /\ clear_log = <<>>

\* C10: a call that ends without being cancelled either raises the domain
\* error and returns nothing, or returns a pair whose problem data is the
\* object the problem page fetcher built in this call and whose editorial is
\* the cached one (hit) or this call's extract output (miss); a call that
\* returns has invoked the problem page fetcher exactly once.
C10_NoPartialSuccess ==
    \A c \in Calls :
        Done(c) =>
            /\ outcome[c].kind \in {"return", "raise", "cancelled"}
            /\ outcome[c].kind = "raise" =>
                 /\ outcome[c].error # None
                 /\ Val(outcome[c].error).type = "CodeforcesEditorialError"
                 /\ outcome[c].editorial = None
                 /\ outcome[c].problem_data = None
            /\ outcome[c].kind = "return" =>
                 /\ outcome[c].error = None
                 /\ outcome[c].problem_data # None
                 /\ outcome[c].problem_data = obs[c].fetched
                 /\ Val(outcome[c].problem_data).fetch = c
                 /\ Val(outcome[c].problem_data).problem = IdOf(c)
                 /\ outcome[c].editorial # None
                 /\ IF obs[c].lookup = "value"
                    THEN outcome[c].editorial = obs[c].cached
                    ELSE outcome[c].editorial = obs[c].extracted
                 /\ Count(c, "parse_problem_page") = 1

C10_Witness ==
    \E c, d \in Calls :
        /\ Done(c) /\ outcome[c].kind = "return" /\ obs[c].lookup = "value"
        /\ Done(d) /\ outcome[d].kind = "return" /\ obs[d].lookup = "absent"

\* C11: a call whose url does not resolve ends at once with the domain
\* error; it invokes no cache operation and no collaborator and writes
\* nothing to the cache.
C11_InvalidInputFatalAndFirst ==
    \A c \in Calls :
        (obs[c].url # None /\ ~HasValidURL(c)) =>
            /\ Done(c)
            /\ outcome[c].kind = "raise"
            /\ Val(outcome[c].error).type = "CodeforcesEditorialError"
            /\ obs[c].raised # None
            /\ Val(obs[c].raised).origin = "URLParser.parse"
            /\ trace[c] = <<>>
            /\ obs[c].get_key = None
            /\ obs[c].set_key = None
            /\ \A k \in CacheKeys : writer[k] # c

C11_Witness ==
    \E c \in Calls :
        /\ obs[c].url = Some("bad")
        /\ Val(obs[c].raised).type = "Exception"
        /\ cache_enabled
        /\ \E k \in CacheKeys : store[k] # Absent

\* the envelope call c hands to the backend: every field from c's own run
OwnEntry(c) ==
    to_dict(CachedEditorial(IdOf(c), obs[c].extracted, TutorialURL(IdOf(c)), "html"))

\* C12: calls for the same identifier may both miss and both run the
\* pipeline; each one that returns returns its own extraction and its own
\* problem data, and whatever the interleaving every key holds what was
\* there at construction, nothing after a flush, or the complete envelope
\* of the one call that wrote last, never a mixture of two calls' fields.
C12_AcceptedRaceKeepsEntriesWhole ==
    /\ \A k \in CacheKeys :
          /\ writer[k] = "init" => store[k] \in UNION {InitialRaw(id) : id \in Identifiers}
          /\ writer[k] = "flush" => store[k] = Absent
          /\ \A c \in Calls :
                writer[k] = c =>
                    /\ HasValidURL(c)
                    /\ k = cache_key(IdOf(c))
                    /\ obs[c].extracted # None
                    /\ Invoked(c, "extract")
                    /\ store[k] = OwnEntry(c)
    /\ \A c \in Calls :
          (Done(c) /\ outcome[c].kind = "return" /\ obs[c].lookup = "absent") =>
              /\ obs[c].extracted # None
              /\ outcome[c].editorial = obs[c].extracted
              /\ outcome[c].problem_data # None
              /\ Val(outcome[c].problem_data).fetch = c
              /\ trace[c] \in {<<"cache.get">> \o Pipeline,
                               <<"cache.get">> \o Pipeline \o <<"cache.set">>}

\* both calls miss on the same key, extract different editorials, write
\* them through and return; the entry is the later writer's
C12_Witness ==
    \E c, d \in Calls :
        /\ c # d
        /\ obs[c].url = obs[d].url
        /\ MissStored(c) /\ MissStored(d)
        /\ obs[c].src = "init" /\ obs[d].src = "init"
        /\ obs[c].extracted # obs[d].extracted
        /\ writer[cache_key(IdOf(c))] = d
        /\ store[cache_key(IdOf(c))] = OwnEntry(d)

\* C13: a cancellation delivered in an await up to and including extract
\* ends the call there: the call invokes nothing more, ends cancelled, and
\* neither that step nor any later one has it write to the cache.
C13_CancelBeforeExtractWritesNothing ==
    [][\A c \in Calls :
          /\ (obs'[c].cancel \notin {"none", "cache.set"}) =>
                /\ pc'[c] = "done"
                /\ outcome'[c].kind = "cancelled"
                /\ ~Invoked(c, "cache.set")'
                /\ obs'[c].set_key = None
                /\ \A k \in CacheKeys : writer'[k] # c
          /\ (obs[c].cancel = "none" /\ obs'[c].cancel \notin {"none", "cache.set"}) =>
                /\ trace'[c] = trace[c]
                /\ store' = store
          /\ obs[c].cancel # "none" =>
                /\ trace'[c] = trace[c]
                /\ outcome'[c] = outcome[c]
                /\ pc'[c] = "done"
      ]_vars

C13_Witness ==
    \E c, d \in Calls :
        /\ obs[c].cancel = "extract"
        /\ outcome[c].kind = "cancelled"
        /\ obs[d].cancel = "cache.get"
        /\ outcome[d].kind = "cancelled"

\* get_editorial with both cache guards (lines 54, 77) false, as a function
\* of what the collaborators answer: `raised` is the exception of the step
\* that raised (None: no step did), `fetched` and `extracted` the values
\* parse_problem_page and extract returned.
plain_outcome(raised, fetched, extracted) ==
    IF raised # None
    THEN Raised(normalize(Val(raised)))
    ELSE Returned(extracted, fetched)

\* lines 61-70 without the cache: the collaborators invoked, in order
plain_trace(raised) ==
    IF raised = None
    THEN Pipeline
    ELSE IF Val(raised).origin \in PipelineOps
         THEN SubSeq(Pipeline, 1, CHOOSE i \in DOMAIN Pipeline : Pipeline[i] = Val(raised).origin)
         ELSE <<>>

IsPipelineOp(op) == op \in PipelineOps
PipelineTrace(c) == SelectSeq(trace[c], IsPipelineOp)

\* every get and every set the call made at the backend raised
Outage(c) ==
    /\ cache_enabled
    /\ Invoked(c, "cache.get") => "get" \in obs[c].faults
    /\ Invoked(c, "cache.set") => "set" \in obs[c].faults

\* C14: a call on a cache-enabled orchestrator whose backend get and set
\* both raise ends with the same outcome and the same sequence of
\* collaborator invocations as the cache-free run of get_editorial on the
\* same collaborator answers, and so does every call on an orchestrator
\* with caching disabled.
C14_CacheOutageEquivalence ==
    \A c \in Calls :
        (Done(c) /\ outcome[c].kind # "cancelled" /\ (Disabled \/ Outage(c))) =>
            /\ obs[c].raised # None =>
                 Val(obs[c].raised).origin \in PipelineOps \cup {"URLParser.parse"}
            /\ outcome[c] = plain_outcome(obs[c].raised, obs[c].fetched, obs[c].extracted)
            /\ PipelineTrace(c) = plain_trace(obs[c].raised)

C14_Witness ==
    \E c, d \in Calls :
        /\ cache_enabled
        /\ Done(c) /\ outcome[c].kind = "return"
        /\ {"get", "set"} \subseteq obs[c].faults
        /\ Done(d) /\ outcome[d].kind = "raise"
        /\ "get" \in obs[d].faults
        /\ Val(obs[d].raised).origin = "tutorial_parser.parse"

\* ---------------------------------------------------------------------
\* C15: write only on success, at most once.  A call invokes the
\* backend's set at most once, and only as its last operation after the
\* problem fetch, locate, tutorial fetch and extract of that same call
\* have all returned (the extracted editorial and the fetched problem are
\* in hand and nothing was raised before).  A call that hit the cache, or
\* in which a pipeline step (or the url parse) failed, never invokes set,
\* and no entry of the store was ever written by it.
WroteNothing(c) ==
    /\ ~Invoked(c, "cache.set")
    /\ obs[c].set_key = None
    /\ obs[c].set_raw = None
    /\ \A k \in CacheKeys : writer[k] # c

WritesAtMostOnceAfterSuccess(c) ==
    /\ Count(c, "cache.set") <= 1
    /\ Invoked(c, "cache.set") =>
           /\ trace[c] = <<"cache.get">> \o Pipeline \o <<"cache.set">>
           /\ obs[c].lookup = "absent"
           /\ obs[c].fetched # None
           /\ obs[c].extracted # None
           /\ obs[c].raised = None
    /\ (\E k \in CacheKeys : writer[k] = c) => Invoked(c, "cache.set")
    /\ obs[c].lookup = "value" => WroteNothing(c)
    /\ obs[c].raised # None => WroteNothing(c)

C15_WriteOnlyOnSuccessAtMostOnce ==
    [][/\ \A c \in Calls : WritesAtMostOnceAfterSuccess(c)'
       /\ (store' # store /\ clear_log' = clear_log) =>
              \E c \in Calls :
                  /\ pc[c] = "cache.set" /\ pc'[c] = "done"
                  /\ WritesAtMostOnceAfterSuccess(c)
                  /\ Invoked(c, "cache.set")
                  /\ \A d \in Calls \ {c} : pc'[d] = pc[d] /\ trace'[d] = trace[d]
      ]_vars

C15_Witness ==
    \E c, d \in Calls :
        /\ cache_enabled
        /\ Done(c) /\ outcome[c].kind = "return" /\ obs[c].lookup = "value"
        /\ Done(d) /\ outcome[d].kind = "raise" /\ obs[d].lookup = "absent"
        /\ Val(obs[d].raised).origin = "extract"

\* ---------------------------------------------------------------------
\* C16: key isolation.  A call for identifier X gives the backend's get
\* and the backend's set the same key, X.cache_key; an entry it wrote is
\* the one at that key and holds X's editorial; an editorial it is served
\* is X's; and a step of the call leaves the entry of every other key as
\* it was (only clear_cache touches entries of other keys).
KeyOf(c) == cache_key(IdOf(c))

UsesOwnKeyOnly(c) ==
    /\ obs[c].get_key # None => obs[c].get_key = Some(KeyOf(c))
    /\ obs[c].set_key # None =>
           /\ obs[c].set_key = Some(KeyOf(c))
           /\ obs[c].set_key = obs[c].get_key
           /\ Val(from_dict(Val(obs[c].set_raw))).problem = IdOf(c)
           /\ Val(Val(from_dict(Val(obs[c].set_raw))).editorial).problem = IdOf(c)
    /\ \A k \in CacheKeys : writer[k] = c => k = KeyOf(c)
    /\ obs[c].lookup = "value" => Val(obs[c].cached).problem = IdOf(c)
    /\ (Done(c) /\ outcome[c].kind = "return") =>
           Val(outcome[c].editorial).problem = IdOf(c)

C16_KeyIsolation ==
    [][/\ \A c \in Calls : UsesOwnKeyOnly(c)'
       /\ \A c \in Calls, k \in CacheKeys :
              (pc[c] \in Awaits /\ pc'[c] # pc[c] /\ k # KeyOf(c)) =>
                  store'[k] = store[k] /\ writer'[k] = writer[k]
      ]_vars

C16_Witness ==
    \E c, d \in Calls :
        /\ HasValidURL(c) /\ HasValidURL(d)
        /\ IdOf(c) # IdOf(d)
        /\ Done(c) /\ outcome[c].kind = "return" /\ obs[c].lookup = "value"
        /\ obs[c].src = "init"
        /\ MissStored(d)
        /\ writer[KeyOf(d)] = d /\ store[KeyOf(d)] = OwnEntry(d)
        /\ store[KeyOf(c)] = OldEntry(IdOf(c))

\* ---------------------------------------------------------------------
\* The event loop resumes a coroutine once the future it awaits is done:
\* under the proviso that every invoked collaborator eventually answers
\* (with a value or an exception), the answer of a pending await is
\* eventually delivered.  Starting a call, cancelling it and clear_cache are
\* the caller's choices and carry no fairness.
Respond(c) ==
    \/ CacheGetDone(c)
    \/ HitFetchDone(c)
    \/ FetchDone(c)
    \/ LocateDone(c)
    \/ TutorialDone(c)
    \/ ExtractDone(c)
    \/ CacheSetDone(c)

\* Termination does not depend on what the backend holds for a key: the fair
\* behaviours are explored from the constructions whose store has no entry
\* for problem B (every kind of entry is still explored at problem A's key,
\* and B's entry is written, served and flushed in the course of the runs).
FairInit == Init /\ store[cache_key(Identifier("u2"))] = Absent

FairSpec == FairInit /\ [][Next]_vars /\ \A c \in Calls : WF_vars(Respond(c))

\* the operations of one run, in the order of lines 55-78
MissRun == <<"cache.get">> \o Pipeline \o <<"cache.set">>
HitRun == <<"cache.get", "parse_problem_page">>
AllOps == {MissRun[i] : i \in DOMAIN MissRun}

LinearRun(c) ==
    /\ \A op \in AllOps : Count(c, op) <= 1
    /\ \/ IsPrefix(trace[c], MissRun)
       \/ IsPrefix(trace[c], Pipeline)
       \/ trace[c] = HitRun
    /\ obs[c].raised # None =>
           /\ Done(c)
           /\ outcome[c].kind = "raise"
           /\ Val(obs[c].raised).origin \in AllOps =>
                  /\ trace[c] # <<>>
                  /\ trace[c][Len(trace[c])] = Val(obs[c].raised).origin
    /\ "get" \in obs[c].faults => Count(c, "cache.get") = 1
    /\ "set" \in obs[c].faults => Done(c) /\ trace[c][Len(trace[c])] = "cache.set"

\* C17: within one call every collaborator and cache operation is invoked
\* at most once, in the one linear order of the code; the step that raised
\* is the last operation of the call (nothing is attempted again); and, the
\* answers of the invoked collaborators being eventually delivered, a call
\* suspended in an await eventually ends, with a return or a raise unless it
\* was cancelled.
C17_NoRetryBoundedLinearRun ==
    /\ [](\A c \in Calls : LinearRun(c))
    /\ \A c \in Calls :
           (pc[c] \in Awaits) ~>
               (Done(c) /\ (obs[c].cancel = "none" => outcome[c].kind \in {"return", "raise"}))

C17_Witness ==
    \E c, d \in Calls :
        /\ Done(c) /\ outcome[c].kind = "return" /\ trace[c] = MissRun
        /\ obs[c].cancel = "none"
        /\ Done(d) /\ outcome[d].kind = "raise" /\ obs[d].cancel = "none"
        /\ Val(obs[d].raised).origin = "find_tutorial"
        /\ trace[d] = <<"cache.get", "parse_problem_page", "find_tutorial">>

\* ---------------------------------------------------------------------
\* C18: the hit path has no fallback.  When the lookup returned an
\* editorial and the problem fetch that follows raises, the call ends at
\* once raising the domain error (the raised one if it is a domain error,
\* otherwise a domain error wrapping it): it returns neither the cached
\* editorial nor problem data, its operations are the cache get and the one
\* problem fetch, locate, tutorial fetch and extract are not invoked, and
\* nothing is written to the cache.
C18_HitPathHasNoFallback ==
    \A c \in Calls :
        (obs[c].lookup = "value" /\ obs[c].raised # None) =>
            /\ Val(obs[c].raised).origin = "parse_problem_page"
            /\ Done(c)
            /\ outcome[c] = Raised(normalize(Val(obs[c].raised)))
            /\ Val(outcome[c].error).type = "CodeforcesEditorialError"
            /\ outcome[c].editorial = None /\ outcome[c].problem_data = None
            /\ trace[c] = HitRun
            /\ Count(c, "parse_problem_page") = 1
            /\ \A op \in {"find_tutorial", "tutorial_parser.parse", "extract", "cache.set"} :
                   ~Invoked(c, op)
            /\ obs[c].fetched = None /\ obs[c].extracted = None
            /\ WroteNothing(c)

C18_Witness ==
    \E c, d \in Calls :
        /\ obs[c].lookup = "value" /\ obs[d].lookup = "value"
        /\ Done(c) /\ outcome[c].kind = "raise"
        /\ Val(obs[c].raised) = Exc("Exception", "parse_problem_page")
        /\ Done(d) /\ outcome[d].kind = "raise"
        /\ Val(obs[d].raised) = Exc("CodeforcesEditorialError", "parse_problem_page")

\* ---------------------------------------------------------------------
\* C19: a hit is decided by truthiness, not presence.  A call whose get
\* returned a present but empty raw value, or an envelope whose editorial is
\* null, has no hit and no cache fault: it runs the miss pipeline from the
\* problem fetch on, returns what it extracted, and the set it issues (the
\* envelope having been built and serialized), once applied, replaces the
\* entry at its key with the envelope of the newly extracted editorial.  A call has a hit only when the raw value was a
\* serialized envelope with an editorial in it.
FalsyLookup(c) ==
    \/ obs[c].got = "empty"
    \/ obs[c].got = "dict" /\ obs[c].cached = None

TreatedAsMiss(c) ==
    /\ obs[c].lookup = "absent"
    /\ obs[c].faults \cap {"get", "from_dict"} = {}
    /\ IsPrefix(<<"cache.get", "parse_problem_page">>, trace[c])
    /\ IsPrefix(trace[c], MissRun)
    /\ Unfailed(c) =>
           /\ IsPrefix(<<"cache.get">> \o Pipeline, trace[c])
           /\ obs[c].extracted # None
           /\ outcome[c] = Returned(obs[c].extracted, obs[c].fetched)
    /\ (Unfailed(c) /\ obs[c].faults \cap {"CachedEditorial", "to_dict"} = {}) =>
           /\ trace[c] = MissRun
           /\ obs[c].set_key = Some(KeyOf(c))
           /\ obs[c].set_raw = Some(OwnEntry(c))
           /\ from_dict(OwnEntry(c)) # None
           /\ Val(from_dict(OwnEntry(c))).editorial = obs[c].extracted
    /\ writer[KeyOf(c)] = c => store[KeyOf(c)] = OwnEntry(c)

HitOnlyOnTruthy(c) ==
    obs[c].lookup = "value" =>
        /\ obs[c].got = "dict"
        /\ obs[c].cached # None
        /\ obs[c].faults = {}

C19_HitDecidedByTruthiness ==
    [][\A c \in Calls :
          /\ HitOnlyOnTruthy(c)'
          /\ FalsyLookup(c)' => TreatedAsMiss(c)'
          /\ (FalsyLookup(c) /\ pc[c] = "cache.set" /\ MissStored(c)') =>
                 /\ store'[KeyOf(c)] = OwnEntry(c)
                 /\ writer'[KeyOf(c)] = c
                 /\ RawTruthy(store'[KeyOf(c)])
      ]_vars

C19_Witness ==
    \E c, d \in Calls :
        /\ obs[c].got = "empty"
        /\ MissStored(c)
        /\ obs[d].lookup = "value" /\ obs[d].src = c
        /\ obs[d].cached = obs[c].extracted
        /\ Done(d) /\ outcome[d].kind = "return"
        /\ store[KeyOf(c)] = OwnEntry(c)

C19_NullEditorialReached ==
    \E c \in Calls :
        /\ obs[c].got = "dict" /\ obs[c].cached = None
        /\ MissStored(c)
        /\ store[KeyOf(c)] = OwnEntry(c)

====
